---- MODULE Spec2Model ----
(***************************************************************************)
(* State-machine model of the visualweb-scraper repository.               *)
(*                                                                         *)
(* Spec models src/src/webscraper_v7.py: main's sequential loop over the  *)
(* input lines and process_url's pipeline (robots gate, page GET, the     *)
(* extractors and their side-fetches), one action per pipeline step.      *)
(* The network is the environment: every request draws its outcome from   *)
(* the outcomes the remote host can produce.                              *)
(*                                                                         *)
(* SpecCalls applies the extractors that are functions of their argument  *)
(* to arguments drawn from bounded sets.  SpecVisual models main of       *)
(* src/src/visualscraper_v2.py: capture, palette, one row per capture.    *)
(* SpecSample models main of src/old/lista_neo.py and lista_neo_es.py:    *)
(* random browse pages, one API query per new site name, rows per year.   *)
(***************************************************************************)
EXTENDS Integers, Sequences, FiniteSets, TLC

VARIABLES
    urls,        \* main: the list of input lines being processed (after --max)
    delay,       \* main: args.delay
    i,           \* main: number of lines taken from urls so far (enumerate index)
    pc,          \* position inside main / process_url
    url,         \* main: url of the current line
    tag,         \* main: tag of the current line
    result,      \* process_url: the result dict under construction
    soup,        \* process_url: the parsed page (NoDoc before the fetch)
    results,     \* main: the results list
    saved,       \* rows handed to save_results_csv / save_results_xlsx
    now,         \* wall clock, advanced by time.sleep
    reqs,        \* requests issued while processing the current line, per kind
    gate,        \* outcome and answer of the current line's can_fetch_url call
    hung,        \* the network operation that blocks for ever, or "none"
    lastReq,     \* line index and time of the most recent request
    prevReq,     \* lastReq as it was when the current line was taken
    side,        \* answers the side-fetches of the current line received
    steps,       \* steps of process_url the current line has completed
    raised,      \* step whose exception reached process_url's handler, or "none"
    out,         \* main: args.format, args.output and the writer that was called
    call,        \* a function under test: its argument and what its calls returned
    sample,      \* old/lista_neo.py: the locals of main and the output file
    visual       \* visualscraper_v2.py: the locals of main and the files on disk

vars == <<urls, delay, i, pc, url, tag, result, soup, results, saved, now,
          reqs, gate, hung, lastReq, prevReq, side, steps, raised, out, call,
          sample, visual>>

----------------------------------------------------------------------------
(* Bounds of the model *)

MaxUrls == 2

(* Program constants *)

REQUEST_TIMEOUT == 15
API_TIMEOUT == 10
HEAD_TIMEOUT == 10
PROBE_TIMEOUT == 5
TEXT_MIN_LEN == 50
VISIBLE_TEXT_MAX == 20000
LANG_LIST_FLOOR == 500
LANG_MULTI_FLOOR == 1500
MINYEAR == 1
MAXYEAR == 9999

----------------------------------------------------------------------------
(* Strings.  A host is the sequence of its dot-separated labels; the       *)
(* substring tests of the code on hosts are tests for a run of labels.     *)

Contains(s, sub) ==
    \E k \in 0..(Len(s) - Len(sub)) :
        \A j \in 1..Len(sub) : s[k + j] = sub[j]

RECURSIVE Dedup(_)
Dedup(s) ==
    IF s = <<>> THEN <<>>
    ELSE LET rest == Dedup(SubSeq(s, 1, Len(s) - 1))
             last == s[Len(s)]
         IN  IF \E k \in 1..Len(rest) : rest[k] = last THEN rest
             ELSE Append(rest, last)

SetToSeqs(S) ==
    {q \in [1..Cardinality(S) -> S] : \A a, b \in 1..Cardinality(S) : a # b => q[a] # q[b]}

----------------------------------------------------------------------------
(* Date strings.  fmt is the syntax the string is written in: "iso"       *)
(* (ISO-8601), "rfc" (RFC-2822), "out" (the dd/mm/yyyy HH:MM form the      *)
(* formatter writes), "text" (anything else) or "empty" (the empty         *)
(* string).  A parsed date is 1 January 00:00 of `year` at UTC offset      *)
(* `off` hours; aware = FALSE is a date without offset.                    *)

NoDate == [fmt |-> "empty", year |-> 0, off |-> 0, aware |-> FALSE, gmt |-> FALSE]

IsoDate(y, o) == [fmt |-> "iso", year |-> y, off |-> o, aware |-> TRUE, gmt |-> FALSE]
RfcDate(y) == [fmt |-> "rfc", year |-> y, off |-> 0, aware |-> TRUE, gmt |-> FALSE]

Parses(date_str) == date_str.fmt \in {"iso", "rfc"}

\* Year of the instant in UTC: 00:00 on 1 January east of Greenwich is still
\* the previous year in UTC.
UtcYear(date_str) ==
    IF date_str.aware /\ date_str.off > 0 THEN date_str.year - 1 ELSE date_str.year

\* astimezone raises OverflowError when the UTC instant leaves MINYEAR..MAXYEAR.
format_datetime_raises(date_str) ==
    /\ Parses(date_str)
    /\ date_str.aware
    /\ (UtcYear(date_str) < MINYEAR \/ UtcYear(date_str) > MAXYEAR)

\* Variant: a string that does not parse gets the GMT marker all the same.
format_datetime_iso_marking(date_str, include_gmt) ==
    IF date_str.fmt = "empty" THEN NoDate
    ELSE IF ~Parses(date_str) THEN [date_str EXCEPT !.gmt = include_gmt]
    ELSE [fmt |-> "out", year |-> UtcYear(date_str), off |-> 0,
          aware |-> FALSE, gmt |-> include_gmt]

format_datetime_iso(date_str, include_gmt) ==
    IF date_str.fmt = "empty" THEN NoDate
    ELSE IF ~Parses(date_str) THEN date_str
    ELSE [fmt |-> "out", year |-> UtcYear(date_str), off |-> 0,
          aware |-> FALSE, gmt |-> include_gmt]

----------------------------------------------------------------------------
(* URLs and the input file *)

U_indie == [scheme |-> "https", netloc |-> <<"indie", "example">>, path |-> "/"]
U_old   == [scheme |-> "https", netloc |-> <<"indie", "example">>, path |-> "/old"]
U_neo   == [scheme |-> "https", netloc |-> <<"kitty", "neocities", "org">>, path |-> "/"]

\* A line of the input file: the url alone, or url <TAB> tag.
Lines == { <<U_indie, "ring">>, <<U_old>>, <<U_neo>> }

InputFiles == UNION { [1..n -> Lines] : n \in 1..MaxUrls }

MaxArgs == {0, 1}
\* args.delay: a configured pause, other than the default of one second
Delays == {2}

get_root_url(u) == [scheme |-> u.scheme, netloc |-> u.netloc]

\* urljoin(base_url, src); src.bad marks a reference urlsplit rejects.
urljoin(base, src) == <<base, src.name>>

IsNeocities(u) == Contains(u.netloc, <<"neocities", "org">>)

----------------------------------------------------------------------------
(* Documents *)

Absent == -1
NonNumeric == -2

NoText == [len |-> 0, langs |-> <<>>, throws |-> FALSE, es |-> FALSE, en |-> FALSE]

Ref(n, e, toks) == [name |-> n, ext |-> e, tokens |-> toks, bad |-> FALSE]
BadRef == [name |-> "//[", ext |-> "", tokens |-> {}, bad |-> TRUE]

\* A font value: its text, the vocabulary keywords it contains, its first
\* comma segment.
NoFont == [value |-> "", names |-> {}, first |-> ""]

\* A declaration of a stylesheet rule: its property name, the colour tokens
\* of its value in the order the regular expression finds them, whether the
\* value holds a gradient, its font value, the url of its cursor.  ruled is
\* FALSE for the text of a style attribute, which stands outside any rule.
Decl(n, cols, grad, fnt, cur) ==
    [name |-> n, colors |-> cols, gradient |-> grad, font |-> fnt, cursor |-> cur,
     ruled |-> TRUE]

NoDoc ==
    [title_tag |-> "", og_title |-> "", metas |-> <<>>, dates |-> <<>>,
     text |-> NoText, body |-> {}, imgs |-> <<>>, media |-> <<>>,
     inline |-> <<>>, style_tags |-> <<>>, links |-> <<>>, parsed |-> FALSE]

\* The page of a personal site: Spanish text, a creation date in the head, a
\* button with explicit size, an image without size, an inline background
\* and a linked stylesheet.
DocIndie ==
    [NoDoc EXCEPT
        !.title_tag = "Mi pagina",
        !.metas = << [name |-> "description", cased |-> FALSE, content |-> "sitio personal"],
                     [name |-> "keywords", cased |-> TRUE, content |-> "web, retro"] >>,
        !.dates = << [sel |-> "meta:name=date", content |-> IsoDate(2021, 1), chrome |-> FALSE] >>,
        !.text = [len |-> 120, langs |-> << <<"pt", 600>>, <<"es", 400>> >>,
                  throws |-> FALSE, es |-> TRUE, en |-> FALSE],
        !.imgs = << [src |-> Ref("btn.gif", "gif", {"btn"}), w |-> 88, h |-> 31, chrome |-> FALSE],
                    [src |-> Ref("pix.png", "png", {}), w |-> Absent, h |-> Absent, chrome |-> FALSE] >>,
        !.media = << [src |-> Ref("song.mid", "mid", {}), chrome |-> FALSE] >>,
        !.inline = << [css |-> << Decl("background", <<"#fff">>, FALSE, NoFont, "") >>,
                       words |-> {"background"}, bgurl |-> Ref("", "", {}), chrome |-> FALSE] >>,
        !.style_tags = << << Decl("color", <<"red">>, FALSE, NoFont, "") >> >>,
        !.links = << [href |-> Ref("main.css", "css", {})] >>,
        !.parsed = TRUE]

\* An old page: a publication date that leaves the calendar when converted
\* to UTC, and a WordPress body.
DocOld ==
    [NoDoc EXCEPT
        !.og_title = "Archivo",
        !.dates = << [sel |-> "meta:property=article:published_time",
                      content |-> IsoDate(MINYEAR, 1), chrome |-> FALSE] >>,
        !.text = [len |-> 30, langs |-> <<>>, throws |-> FALSE, es |-> FALSE, en |-> FALSE],
        !.body = {"wp-content"},
        !.imgs = << [src |-> Ref("anim.gif", "gif", {}), w |-> 150, h |-> 20, chrome |-> FALSE] >>,
        !.parsed = TRUE]

\* A Neocities page: its only date is a <time datetime> inside the footer;
\* text the detector gives up on.
DocNeo ==
    [NoDoc EXCEPT
        !.title_tag = "kitty",
        !.dates = << [sel |-> "time:datetime", content |-> IsoDate(2019, 0), chrome |-> TRUE] >>,
        !.text = [len |-> 80, langs |-> <<>>, throws |-> TRUE, es |-> FALSE, en |-> FALSE],
        !.imgs = << [src |-> BadRef, w |-> Absent, h |-> Absent, chrome |-> TRUE] >>,
        !.parsed = TRUE]

\* What the server of url answers to a successful GET.
PageAt(u) ==
    IF u = U_indie THEN DocIndie
    ELSE IF u = U_old THEN DocOld
    ELSE DocNeo


----------------------------------------------------------------------------
(* Content extractors *)

extract_title(s) ==
    IF s.title_tag # "" THEN s.title_tag
    ELSE IF s.og_title # "" THEN s.og_title
    ELSE ""

\* cased marks a <meta> whose name attribute is not written in lower case.
extract_meta(s, name) ==
    LET exact == {k \in 1..Len(s.metas) : s.metas[k].name = name /\ ~s.metas[k].cased}
        first == CHOOSE k \in exact : \A j \in exact : k <= j
        loose == {k \in 1..Len(s.metas) : s.metas[k].name = name /\ s.metas[k].content # ""}
        hit   == CHOOSE k \in loose : \A j \in loose : k <= j
    IN  IF exact # {} /\ s.metas[first].content # "" THEN s.metas[first].content
        ELSE IF loose # {} THEN s.metas[hit].content
        ELSE ""

\* The soup after visible_text_from_soup has decomposed script, style,
\* noscript, iframe, svg, canvas, header, footer and nav in place.
Decomposed(s) ==
    [s EXCEPT !.imgs = SelectSeq(s.imgs, LAMBDA e : ~e.chrome),
              !.dates = SelectSeq(s.dates, LAMBDA e : ~e.chrome),
              !.media = SelectSeq(s.media, LAMBDA e : ~e.chrome),
              !.inline = SelectSeq(s.inline, LAMBDA e : ~e.chrome),
              !.style_tags = <<>>]

visible_text_from_soup(s) == s.text

\* text[:20000]
Truncate(text, n) == [text EXCEPT !.len = IF text.len > n THEN n ELSE text.len]

----------------------------------------------------------------------------
(* Language.  Probabilities are in units of 1/10000. *)

NoProfile == [language |-> "", confidence |-> 0, all_langs |-> <<>>, multilingual |-> FALSE]

RECURSIVE InsertDesc(_, _)
InsertDesc(sorted, e) ==
    IF sorted = <<>> THEN <<e>>
    ELSE IF sorted[Len(sorted)][2] >= e[2] THEN Append(sorted, e)
    ELSE Append(InsertDesc(SubSeq(sorted, 1, Len(sorted) - 1), e), sorted[Len(sorted)])

RECURSIVE SortDesc(_)
SortDesc(langs) ==
    IF langs = <<>> THEN <<>>
    ELSE InsertDesc(SortDesc(SubSeq(langs, 1, Len(langs) - 1)), langs[Len(langs)])

\* Variant: only the empty text is answered without the detector.
detect_language_profile_nonempty(text) ==
    IF text.len = 0 THEN NoProfile
    ELSE IF text.throws THEN NoProfile
    ELSE
        LET langs_detected == SortDesc(text.langs)
        IN  [language |-> langs_detected[1][1], confidence |-> langs_detected[1][2],
             all_langs |-> [k \in 1..Len(langs_detected) |-> langs_detected[k][1]],
             multilingual |-> FALSE]

\* Variant: the English correction is tried before the Spanish one.
detect_language_profile_english_first(text) ==
    IF text.len < TEXT_MIN_LEN THEN NoProfile
    ELSE IF text.throws THEN NoProfile
    ELSE
        LET langs_detected == SortDesc(text.langs)
            top == langs_detected[1][1]
            listed == SelectSeq(langs_detected, LAMBDA e : e[2] > LANG_LIST_FLOOR)
            strong == SelectSeq(langs_detected, LAMBDA e : e[2] > LANG_MULTI_FLOOR)
            english == IF top \notin {"es", "en"} /\ text.en THEN "en" ELSE top
            primary == IF english \in {"sw", "pt", "no", "ca"} /\ text.es THEN "es" ELSE english
        IN  [language |-> primary, confidence |-> langs_detected[1][2],
             all_langs |-> [k \in 1..Len(listed) |-> listed[k][1]], multilingual |-> Len(strong) > 1]

\* detect_langs(text_lower) is reached only past the length test.
detect_langs_called(text) == ~(text.len = 0 \/ text.len < TEXT_MIN_LEN)

detect_language_profile(text) ==
    IF text.len < TEXT_MIN_LEN THEN NoProfile
    ELSE IF text.throws THEN NoProfile
    ELSE
        LET langs_detected == SortDesc(text.langs)
            top == langs_detected[1][1]
            listed == SelectSeq(langs_detected, LAMBDA e : e[2] > LANG_LIST_FLOOR)
            strong == SelectSeq(langs_detected, LAMBDA e : e[2] > LANG_MULTI_FLOOR)
            spanish == IF top \in {"sw", "pt", "no", "ca"} /\ text.es THEN "es" ELSE top
            primary == IF spanish \notin {"es", "en"} /\ text.en THEN "en" ELSE spanish
        IN  [language |-> primary, confidence |-> langs_detected[1][2],
             all_langs |-> [k \in 1..Len(listed) |-> listed[k][1]], multilingual |-> Len(strong) > 1]

\* round(confidence, 3), in units of 1/1000
Round3(p) == (p + 5) \div 10

----------------------------------------------------------------------------
(* Platform API, dates, platform *)

\* Answers of https://neocities.org/api/info: "fail" is a request or a JSON
\* decoding that raises, "empty" an answer without the field asked for.
\* "full" carries every field, "unused" stands for no query at all.
ApiResp(kind) ==
    IF kind = "full"
    THEN [kind |-> kind, created_at |-> RfcDate(2021), last_updated |-> RfcDate(2022),
          tags |-> <<"cats", "art">>]
    ELSE [kind |-> kind, created_at |-> NoDate, last_updated |-> NoDate, tags |-> <<>>]

CreationTags ==
    << "meta:name=date", "meta:property=article:published_time",
       "meta:property=og:published_time", "meta:itemprop=dateCreated", "time:datetime" >>

UpdateTags ==
    << "meta:property=article:modified_time", "meta:property=og:updated_time",
       "meta:itemprop=dateModified", "meta:name=last-modified", "time:itemprop=dateModified" >>

\* The value of the first selector, in order, whose element carries one;
\* soup.find gives the first element of the document that matches a selector.
RECURSIVE FirstMeta(_, _)
FirstMeta(s, sels) ==
    IF sels = <<>> THEN NoDate
    ELSE LET hits == {k \in 1..Len(s.dates) : s.dates[k].sel = sels[1]}
             first == CHOOSE k \in hits : \A j \in hits : k <= j
             content == IF hits = {} THEN NoDate ELSE s.dates[first].content
         IN  IF content # NoDate THEN content ELSE FirstMeta(s, Tail(sels))

\* The API value is used when the call succeeded, the field is present and
\* formatting it does not raise (the whole API branch sits in one try).
ApiDate(raw, resp) ==
    resp.kind = "full" /\ raw # NoDate /\ ~format_datetime_raises(raw)

get_creation_date(u, s, resp) ==
    IF ApiDate(resp.created_at, resp) THEN format_datetime_iso(resp.created_at, TRUE)
    ELSE format_datetime_iso(FirstMeta(s, CreationTags), TRUE)

get_creation_date_raises(u, s, resp) ==
    /\ ~ApiDate(resp.created_at, resp)
    /\ format_datetime_raises(FirstMeta(s, CreationTags))

\* Answers to the HEAD request: "lastmod" carries a Last-Modified header,
\* "nothing" none, "fail" is a request that raises.
HeadResp(kind) ==
    [kind |-> kind, value |-> IF kind = "lastmod" THEN RfcDate(2020) ELSE NoDate]

\* The HEAD request is sent only when neither the API nor the document gave a value.
NeedsHead(u, s, resp) ==
    /\ ~ApiDate(resp.last_updated, resp)
    /\ FirstMeta(s, UpdateTags) = NoDate

get_last_update_date(u, s, resp, head) ==
    IF ApiDate(resp.last_updated, resp) THEN format_datetime_iso(resp.last_updated, TRUE)
    ELSE IF FirstMeta(s, UpdateTags) # NoDate
         THEN format_datetime_iso(FirstMeta(s, UpdateTags), TRUE)
    ELSE IF head.kind = "lastmod" /\ ~format_datetime_raises(head.value)
         THEN format_datetime_iso(head.value, TRUE)
    ELSE NoDate

get_last_update_date_raises(u, s, resp) ==
    /\ ~ApiDate(resp.last_updated, resp)
    /\ format_datetime_raises(FirstMeta(s, UpdateTags))

get_neocities_tags(u, resp) ==
    IF ~IsNeocities(u) THEN <<>>
    ELSE IF resp.kind = "full" THEN resp.tags
    ELSE <<>>

detect_platform(u, body) ==
    IF Contains(u.netloc, <<"neocities", "org">>) THEN "Neocities"
    ELSE IF Contains(u.netloc, <<"github", "io">>) THEN "GitHub Pages"
    ELSE IF Contains(u.netloc, <<"netlify", "app">>) THEN "Netlify"
    ELSE IF Contains(u.netloc, <<"vercel", "app">>) THEN "Vercel"
    ELSE IF Contains(u.netloc, <<"wordpress", "com">>) \/ "wp-content" \in body THEN "WordPress"
    ELSE IF Contains(u.netloc, <<"blogspot">>) THEN "Blogger"
    ELSE IF Contains(u.netloc, <<"wixsite", "com">>) THEN "Wix"
    ELSE IF Contains(u.netloc, <<"weebly", "com">>) THEN "Weebly"
    ELSE IF Contains(u.netloc, <<"glitch", "me">>) THEN "Glitch"
    ELSE IF Contains(u.netloc, <<"replit", "dev">>) \/ Contains(u.netloc, <<"repl", "co">>)
         THEN "Replit"
    ELSE IF "google.com/sites" \in body THEN "Google Sites"
    ELSE "Unknown"


----------------------------------------------------------------------------
(* Media *)

\* urljoin raises ValueError on a reference it cannot split.
RefsRaise(refs) == \E k \in 1..Len(refs) : refs[k].name # "" /\ refs[k].bad

\* The src attributes of a list of elements
Srcs(es) == [k \in 1..Len(es) |-> es[k].src]

find_gifs(s, base) ==
    LET gifs == SelectSeq(Srcs(s.imgs),
                          LAMBDA src : src.name # "" /\ (src.ext = "gif" \/ ".gif" \in src.tokens))
    IN  Dedup([k \in 1..Len(gifs) |-> urljoin(base, gifs[k])])

find_gifs_raises(s) == RefsRaise(Srcs(s.imgs))

NoMedia == [buttons |-> <<>>, blinkies |-> <<>>]

classify_by_size(w, h, full, acc) ==
    IF w = NonNumeric \/ h = NonNumeric THEN acc
    ELSE IF 120 <= w /\ w <= 160 /\ 18 <= h /\ h <= 25
         THEN [acc EXCEPT !.blinkies = Append(@, full)]
    ELSE IF 70 <= w /\ w <= 100 /\ 12 <= h /\ h <= 35
         THEN [acc EXCEPT !.buttons = Append(@, full)]
    ELSE acc

\* any(k in filename ...): the tokens the file name contains
classify_by_name(src, full, acc) ==
    IF src.tokens \cap {"button", "badge", "btn", "88x31", "80x15"} # {}
    THEN [acc EXCEPT !.buttons = Append(@, full)]
    ELSE IF src.tokens \cap {"blink", "blinkie", "150x20"} # {}
    THEN [acc EXCEPT !.blinkies = Append(@, full)]
    ELSE acc

\* Answers to the GET that probes an image: "size" is an image PIL opens
\* (88x31), "nothing" a body that is no image, "fail" a request that raises.
ProbeResp(kind) ==
    IF kind = "size" THEN [kind |-> kind, w |-> 88, h |-> 31]
    ELSE [kind |-> kind, w |-> 0, h |-> 0]

\* The <img> elements the scan looks at: those with a src, first occurrence
\* of each resolved url only.
Scanned(imgs, base) ==
    {k \in 1..Len(imgs) :
        /\ imgs[k].src.name # ""
        /\ \A j \in 1..(k - 1) :
              imgs[j].src.name # "" => urljoin(base, imgs[j].src) # urljoin(base, imgs[k].src)}

\* The images whose size is probed with a GET.
Probed(imgs, base) ==
    {k \in Scanned(imgs, base) :
        /\ (imgs[k].w = Absent \/ imgs[k].h = Absent)
        /\ imgs[k].src.ext \in {"gif", "png", "jpg", "jpeg"}}

RECURSIVE ImgScan(_, _, _, _, _)
ImgScan(imgs, base, probes, k, acc) ==
    IF k > Len(imgs) THEN acc
    ELSE IF k \notin Scanned(imgs, base) THEN ImgScan(imgs, base, probes, k + 1, acc)
    ELSE
        LET img == imgs[k]
            full == urljoin(base, img.src)
            sized == IF k \in Probed(imgs, base) /\ probes[k].kind = "size"
                     THEN classify_by_size(probes[k].w, probes[k].h, full, acc)
                     ELSE acc
        IN  IF img.w # Absent /\ img.h # Absent
            THEN ImgScan(imgs, base, probes, k + 1, classify_by_size(img.w, img.h, full, acc))
            ELSE ImgScan(imgs, base, probes, k + 1, classify_by_name(img.src, full, sized))

\* Inline styles whose text names a background and a button, badge or blinkie.
RECURSIVE InlineScan(_, _, _)
InlineScan(tags, base, acc) ==
    IF tags = <<>> THEN acc
    ELSE
        LET t == tags[1]
            hit == /\ "background" \in t.words
                   /\ t.words \cap {"button", "badge", "blink"} # {}
                   /\ t.bgurl.name # ""
            full == urljoin(base, t.bgurl)
        IN  IF ~hit THEN InlineScan(Tail(tags), base, acc)
            ELSE IF t.words \cap {"blink", "150x20"} # {}
                 THEN InlineScan(Tail(tags), base, [acc EXCEPT !.blinkies = Append(@, full)])
            ELSE InlineScan(Tail(tags), base, [acc EXCEPT !.buttons = Append(@, full)])

find_buttons_and_blinkies(s, base, probes) ==
    LET acc == InlineScan(s.inline, base, ImgScan(s.imgs, base, probes, 1, NoMedia))
    IN  [buttons |-> Dedup(acc.buttons), blinkies |-> Dedup(acc.blinkies)]

find_buttons_and_blinkies_raises(s, probes) ==
    LET hits == SelectSeq(s.inline,
                          LAMBDA t : /\ "background" \in t.words
                                     /\ t.words \cap {"button", "badge", "blink"} # {})
    IN  RefsRaise(Srcs(s.imgs)) \/ RefsRaise([k \in 1..Len(hits) |-> hits[k].bgurl])

find_sounds(s, base) ==
    LET srcs == SelectSeq(Srcs(s.media), LAMBDA src : src.name # "")
    IN  Dedup([k \in 1..Len(srcs) |-> urljoin(base, srcs[k])])

find_sounds_raises(s) == RefsRaise(Srcs(s.media))

----------------------------------------------------------------------------
(* Styles *)

ColorProps == {"background", "background-color", "background-image", "color", "border"}
FontProps == {"font-family", "font"}
FontKeywords ==
    << "comic", "courier", "times", "arial", "verdana", "georgia", "monospace", "serif",
       "sans-serif" >>

\* Answers to the GET of a linked stylesheet: "css" is a 200 text/css body,
\* "nothing" any other response, "fail" a request that raises.
CssResp(kind) ==
    [kind |-> kind,
     text |-> IF kind = "css"
              THEN << Decl("color", <<"red", "blue">>, FALSE, NoFont, ""),
                      Decl("cursor", <<>>, FALSE, NoFont, "paw.cur") >>
              ELSE <<>>]

RECURSIVE Flatten(_)
Flatten(texts) == IF texts = <<>> THEN <<>> ELSE texts[1] \o Flatten(Tail(texts))

RECURSIVE LinkedCss(_, _, _)
LinkedCss(links, fetched, k) ==
    IF k > Len(links) THEN <<>>
    ELSE IF links[k].href.name # "" /\ fetched[k].kind = "css"
         THEN <<fetched[k].text>> \o LinkedCss(links, fetched, k + 1)
    ELSE LinkedCss(links, fetched, k + 1)

\* The stylesheet links that are fetched.
Linked(links) == {k \in 1..Len(links) : links[k].href.name # ""}

\* css_all: style attributes, then <style> blocks, then the linked sheets.
CssAll(s, fetched) ==
    Flatten([k \in 1..Len(s.inline) |->
                [j \in 1..Len(s.inline[k].css) |-> [s.inline[k].css[j] EXCEPT !.ruled = FALSE]]]
            \o s.style_tags \o LinkedCss(s.links, fetched, 1))

SeqRange(q) == {q[k] : k \in 1..Len(q)}

\* colors, fonts and cursors are built as sets, from the declarations of
\* qualified rules only.
parse_css_for_properties_combined(css) ==
    LET ds == {d \in SeqRange(css) : d.ruled}
    IN  [colors |-> UNION {SeqRange(d.colors) : d \in {e \in ds : e.name \in ColorProps}},
         fonts |-> {d.font : d \in {e \in ds : e.name \in FontProps}},
         cursors |-> {d.cursor : d \in {e \in ds : e.name = "cursor" /\ e.cursor # ""}},
         has_gradients |-> \E d \in ds : d.name \in ColorProps /\ d.gradient]

RECURSIVE FirstKeyword(_, _)
FirstKeyword(kws, named) ==
    IF kws = <<>> THEN ""
    ELSE IF kws[1] \in named THEN kws[1]
    ELSE FirstKeyword(Tail(kws), named)

detect_font_family(font_list) ==
    IF font_list = <<>> THEN ""
    ELSE LET named == UNION {f.names : f \in SeqRange(font_list)}
         IN  IF FirstKeyword(FontKeywords, named) # "" THEN FirstKeyword(FontKeywords, named)
             ELSE font_list[1].first

\* The lists come from list(set): their order is whatever the set iterates in.
StyleResults(s, fetched) ==
    LET css == CssAll(s, fetched)
        p == parse_css_for_properties_combined(css)
    IN  { [background_colors |-> bg, font_family |-> detect_font_family(fl),
           cursor_custom |-> (p.cursors # {}) \/ (\E k \in 1..Len(css) : css[k].name = "cursor"),
           font_list |-> fl, cursor_links |-> cl, has_gradients |-> p.has_gradients] :
          bg \in SetToSeqs(p.colors), fl \in SetToSeqs(p.fonts), cl \in SetToSeqs(p.cursors) }

\* Variant: the stylesheet GET is outside its try block.
extract_basic_styles_uncaught(s, fetched) ==
    RefsRaise([k \in 1..Len(s.links) |-> s.links[k].href]) \/ \E k \in DOMAIN fetched : fetched[k].kind = "fail"

extract_basic_styles_raises(s, fetched) == RefsRaise([k \in 1..Len(s.links) |-> s.links[k].href])


----------------------------------------------------------------------------
(* The network *)

\* rp.read() calls urlopen without a timeout.
NoTimeout == 0

\* What a host can do with a request.  "silent" is a host that accepts the
\* connection and never answers.
RobotsOutcomes ==
    {"allows", "disallows", "http_401_403", "http_4xx", "http_5xx", "network_error",
     "undecodable", "silent"}
PageOutcomes == {"ok", "http_error", "transport", "silent"}

\* A request with a timeout turns a silent host into a timeout exception; a
\* request without one waits for ever.
Settle(outcome, timeout) ==
    IF outcome # "silent" THEN outcome
    ELSE IF timeout > 0 THEN "timed_out"
    ELSE "hangs"

\* rp.read() followed by rp.can_fetch(): HTTPError 401/403 sets disallow_all,
\* other 4xx set allow_all, any other HTTPError leaves the parser unread, and
\* an unread parser answers False.  URLError and UnicodeDecodeError leave
\* read() as exceptions and are caught by can_fetch_url.
can_fetch_url(outcome) ==
    IF outcome \in {"network_error", "undecodable"} THEN TRUE
    ELSE IF outcome = "http_401_403" THEN FALSE
    ELSE IF outcome = "http_4xx" THEN TRUE
    ELSE IF outcome = "http_5xx" THEN FALSE
    ELSE outcome = "allows"

\* logging.warning(... "Asumiendo permitido.")
can_fetch_url_logs(outcome) == outcome \in {"network_error", "undecodable"}

\* str(e) of the exception fetch_url lets through
FetchError(outcome) ==
    IF outcome = "http_error" THEN "HTTPError: 404 Client Error"
    ELSE IF outcome = "timed_out" THEN "ReadTimeout"
    ELSE "ConnectionError"

----------------------------------------------------------------------------
(* process_url *)

BlockedMsg == "Blocked by robots.txt"

DefaultResult(u) ==
    [url |-> u, title |-> "", meta_description |-> "", keywords |-> "",
     language |-> "", language_confidence |-> 0, languages_detected |-> <<>>,
     multilingual |-> FALSE, background_colors |-> <<>>, font_family |-> "",
     font_list |-> <<>>, cursor_custom |-> FALSE, cursor_links |-> <<>>,
     has_gif |-> FALSE, gifs |-> <<>>, has_buttons |-> FALSE, buttons |-> <<>>,
     has_blinkies |-> FALSE, blinkies |-> <<>>, has_sounds |-> FALSE, sounds |-> <<>>,
     visible_text |-> NoText, error |-> "", tags_api |-> <<>>, tag |-> "",
     created_at |-> NoDate, last_updated |-> NoDate, platform |-> ""]

\* result[key] = value for a key the dict may not hold yet
SetKey(r, key, value) ==
    [k \in DOMAIN r \cup {key} |-> IF k = key THEN value ELSE r[k]]

NoReqs == [robots |-> 0, page |-> 0, api |-> 0, head |-> 0, probe |-> 0, css |-> 0]
NoGate == [outcome |-> "none", allowed |-> FALSE, logged |-> FALSE]
NoSide ==
    [created |-> ApiResp("unused"), updated |-> ApiResp("unused"), tags |-> ApiResp("unused"), head |-> HeadResp("unused"),
     probes |-> <<>>, css |-> <<>>, api_at |-> <<>>]

\* The steps of process_url that follow the page fetch, in program order.
Pipeline ==
    << "extract", "language", "created", "updated", "platform", "tags", "gifs", "buttons",
       "sounds", "styles" >>

\* Variant: the gate's answer is ignored and the page is fetched anyway.
AfterGateIgnored(allowed) == "fetch"

\* Where process_url goes after the robots gate.
AfterGate(allowed) == IF allowed THEN "fetch" ELSE "append"

\* Variant: a transport failure sends the GET again.
AfterFetchRetrying(outcome) ==
    IF outcome = "ok" THEN "extract"
    ELSE IF outcome = "transport" THEN "fetch"
    ELSE "append"

\* Where process_url goes after fetch_url: on an exception, to the handler
\* and out.
AfterFetch(outcome) == IF outcome = "ok" THEN "extract" ELSE "append"

\* except Exception as e: result["error"] = str(e)
Handler(r, msg) == [r EXCEPT !.error = msg]

\* Variant: a row that carries an error is not kept.
AppendRowUnlessFailed(rows, res) == IF res.error # "" THEN rows ELSE Append(rows, res)

\* results.append(res)
AppendRow(rows, res) == Append(rows, res)

\* Variant: no pause after a line that ended with an error.
SleepForUnlessFailed(res, d) == IF res.error # "" THEN 0 ELSE d

\* time.sleep(args.delay)
SleepFor(res, d) == d

Count(kind, n) == [reqs EXCEPT ![kind] = @ + n]

Stamp == [line |-> i, at |-> now]


NoUrl == [scheme |-> "", netloc |-> <<>>, path |-> ""]
NoStamp == [line |-> 0, at |-> 0]

\* urls = read_input_file(...); if args.max > 0: urls = urls[:args.max]
Truncated(lines, max) ==
    IF max > 0 /\ max < Len(lines) THEN SubSeq(lines, 1, max) ELSE lines

\* url, tag of a line: split on the first tab when there is one
LineUrl(line) == line[1]
LineTag(line) == IF Len(line) > 1 THEN line[2] ELSE ""

NoOut == [flag |-> "", format |-> "", output |-> "", writer |-> "none"]
NoCall == [fn |-> "none", arg |-> <<>>, rets |-> <<>>]
NoSample ==
    [pc |-> "idle", es |-> FALSE, max_pages |-> 0, counts |-> <<>>, collected |-> <<>>,
     seen_sitenames |-> {}, attempts |-> 0, api_calls |-> 0, rows_to_save |-> <<>>,
     sitenames |-> <<>>, file |-> <<>>, gets |-> 0, note |-> ""]
NoVisual ==
    [pc |-> "idle", urls |-> <<>>, colors |-> 0, k |-> 0, disk |-> <<>>, results |-> <<>>,
     captured |-> {}, out |-> NoOut]

\* main of webscraper_v7.py before its loop starts
Start ==
    /\ i = 0
    /\ pc = "main"
    /\ url = NoUrl
    /\ tag = ""
    /\ result = DefaultResult(NoUrl)
    /\ soup = NoDoc
    /\ results = <<>>
    /\ saved = <<>>
    /\ now = 0
    /\ reqs = NoReqs
    /\ gate = NoGate
    /\ hung = "none"
    /\ lastReq = NoStamp
    /\ prevReq = NoStamp
    /\ side = NoSide
    /\ steps = {}
    /\ raised = "none"
    /\ out = NoOut

Init ==
    /\ urls \in {Truncated(lines, max) : lines \in InputFiles, max \in MaxArgs}
    /\ delay \in Delays
    /\ Start
    /\ call = NoCall
    /\ sample = NoSample
    /\ visual = NoVisual

Input == <<urls, delay>>
Loop == <<i, url, tag, results, saved, now, prevReq, out>>
\* What webscraper_v7.py does not touch
Apart == <<call, sample, visual>>

\* The step after `step` in process_url; after the last one, back to main.
After(step) ==
    LET k == CHOOSE j \in 1..Len(Pipeline) : Pipeline[j] = step
    IN  IF k < Len(Pipeline) THEN Pipeline[k + 1] ELSE "append"

\* A step of the pipeline that completes and stores its fields.
Completes(step, r) ==
    /\ result' = r
    /\ steps' = steps \cup {step}
    /\ pc' = After(step)
    /\ raised' = raised

\* A step whose exception reaches the handler of process_url.
Raises(step, msg) ==
    /\ result' = Handler(result, msg)
    /\ steps' = steps
    /\ pc' = "append"
    /\ raised' = step

\* main, for i, line in enumerate(urls, 1): the next line is split and
\* process_url starts with a fresh result dict.
NextLine ==
    /\ pc = "main"
    /\ i < Len(urls)
    /\ i' = i + 1
    /\ url' = LineUrl(urls[i + 1])
    /\ tag' = LineTag(urls[i + 1])
    /\ result' = DefaultResult(LineUrl(urls[i + 1]))
    /\ soup' = NoDoc
    /\ reqs' = NoReqs
    /\ gate' = NoGate
    /\ side' = NoSide
    /\ steps' = {}
    /\ raised' = "none"
    /\ prevReq' = lastReq
    /\ pc' = "robots"
    /\ UNCHANGED <<Input, Apart, results, saved, now, hung, lastReq, out>>

\* process_url: if not can_fetch_url(url)
Robots ==
    /\ pc = "robots"
    /\ \E answer \in RobotsOutcomes :
          LET outcome == Settle(answer, NoTimeout)
              allowed == can_fetch_url(outcome)
          IN  /\ reqs' = Count("robots", 1)
              /\ lastReq' = Stamp
              /\ IF outcome = "hangs"
                 THEN /\ hung' = "robots"
                      /\ pc' = "hung"
                      /\ UNCHANGED <<gate, result>>
                 ELSE /\ hung' = hung
                      /\ gate' = [outcome |-> outcome, allowed |-> allowed,
                                  logged |-> can_fetch_url_logs(outcome)]
                      /\ pc' = AfterGate(allowed)
                      /\ result' = IF allowed THEN result
                                   ELSE [result EXCEPT !.error = BlockedMsg]
    /\ UNCHANGED <<Input, Apart, Loop, soup, side, steps, raised>>

\* r = fetch_url(url, session); soup = BeautifulSoup(r.text, "lxml")
Fetch ==
    /\ pc = "fetch"
    /\ \E answer \in PageOutcomes :
          LET outcome == Settle(answer, REQUEST_TIMEOUT)
          IN  /\ reqs' = Count("page", 1)
              /\ lastReq' = Stamp
              /\ pc' = AfterFetch(outcome)
              /\ IF outcome = "ok"
                 THEN /\ soup' = PageAt(url)
                      /\ UNCHANGED <<result, raised>>
                 ELSE /\ soup' = soup
                      /\ result' = Handler(result, FetchError(outcome))
                      /\ raised' = "fetch"
    /\ UNCHANGED <<Input, Apart, Loop, gate, hung, side, steps>>

\* title, meta_description, keywords, visible_text
Extract ==
    /\ pc = "extract"
    /\ Completes("extract",
          [result EXCEPT !.title = extract_title(soup),
                         !.meta_description = extract_meta(soup, "description"),
                         !.keywords = extract_meta(soup, "keywords"),
                         !.visible_text =
                             Truncate(visible_text_from_soup(soup), VISIBLE_TEXT_MAX)])
    /\ soup' = Decomposed(soup)
    /\ UNCHANGED <<Input, Apart, Loop, reqs, gate, hung, lastReq, side>>

\* detect_language_profile(text)
Language ==
    /\ pc = "language"
    /\ LET p == detect_language_profile(soup.text)
       IN  Completes("language",
              [result EXCEPT !.language = p.language,
                             !.language_confidence = Round3(p.confidence),
                             !.languages_detected = p.all_langs,
                             !.multilingual = p.multilingual])
    /\ UNCHANGED <<Input, Apart, Loop, soup, reqs, gate, hung, lastReq, side>>

\* What the caller of a side-fetch receives: from a silent host, with a
\* timeout, the exception its try block catches.
Received(answer, timeout) ==
    IF Settle(answer.kind, timeout) = "timed_out" THEN [answer EXCEPT !.kind = "fail"]
    ELSE answer

\* The times of the queries process_url has sent to the platform API, with
\* one more at the present time when the url is on Neocities.
ApiAt(u) == IF IsNeocities(u) THEN Append(side.api_at, now) ELSE side.api_at

\* The answer of the platform API to one query; no query off Neocities.
ApiAnswers(u) ==
    IF IsNeocities(u)
    THEN {Received(ApiResp(k), API_TIMEOUT) : k \in {"full", "empty", "fail", "silent"}}
    ELSE {ApiResp("unused")}

\* result["created_at"] = get_creation_date(url, soup)
Created ==
    /\ pc = "created"
    /\ \E resp \in ApiAnswers(url) :
          /\ reqs' = Count("api", IF IsNeocities(url) THEN 1 ELSE 0)
          /\ lastReq' = IF IsNeocities(url) THEN Stamp ELSE lastReq
          /\ side' = [side EXCEPT !.created = resp, !.api_at = ApiAt(url)]
          /\ IF get_creation_date_raises(url, soup, resp)
             THEN Raises("created", "OverflowError: date value out of range")
             ELSE Completes("created",
                     [result EXCEPT !.created_at = get_creation_date(url, soup, resp)])
    /\ UNCHANGED <<Input, Apart, Loop, soup, gate, hung>>

HeadAnswers(u, s, resp) ==
    IF NeedsHead(u, s, resp) /\ ~get_last_update_date_raises(u, s, resp)
    THEN {Received(HeadResp(k), HEAD_TIMEOUT) : k \in {"lastmod", "nothing", "fail", "silent"}}
    ELSE {HeadResp("unused")}

\* result["last_updated"] = get_last_update_date(url, soup)
Updated ==
    /\ pc = "updated"
    /\ \E resp \in ApiAnswers(url) :
       \E head \in HeadAnswers(url, soup, resp) :
          LET apis == IF IsNeocities(url) THEN 1 ELSE 0
              heads == IF head = HeadResp("unused") THEN 0 ELSE 1
          IN  /\ reqs' = [reqs EXCEPT !.api = @ + apis, !.head = @ + heads]
              /\ lastReq' = IF apis + heads > 0 THEN Stamp ELSE lastReq
              /\ side' = [side EXCEPT !.updated = resp, !.head = head, !.api_at = ApiAt(url)]
              /\ IF get_last_update_date_raises(url, soup, resp)
                 THEN Raises("updated", "OverflowError: date value out of range")
                 ELSE Completes("updated",
                         [result EXCEPT
                             !.last_updated = get_last_update_date(url, soup, resp, head)])
    /\ UNCHANGED <<Input, Apart, Loop, soup, gate, hung>>

\* result["platform"] = detect_platform(url, r.text)
Platform ==
    /\ pc = "platform"
    /\ Completes("platform", [result EXCEPT !.platform = detect_platform(url, soup.body)])
    /\ UNCHANGED <<Input, Apart, Loop, soup, reqs, gate, hung, lastReq, side>>

\* result["tags_api"] = get_neocities_tags(url)
Tags ==
    /\ pc = "tags"
    /\ \E resp \in ApiAnswers(url) :
          /\ reqs' = Count("api", IF IsNeocities(url) THEN 1 ELSE 0)
          /\ lastReq' = IF IsNeocities(url) THEN Stamp ELSE lastReq
          /\ side' = [side EXCEPT !.tags = resp, !.api_at = ApiAt(url)]
          /\ Completes("tags", [result EXCEPT !.tags_api = get_neocities_tags(url, resp)])
    /\ UNCHANGED <<Input, Apart, Loop, soup, gate, hung>>


\* gifs = find_gifs(soup, base)
Gifs ==
    /\ pc = "gifs"
    /\ IF find_gifs_raises(soup)
       THEN Raises("gifs", "ValueError: Invalid IPv6 URL")
       ELSE LET gifs == find_gifs(soup, get_root_url(url))
            IN  Completes("gifs", [result EXCEPT !.gifs = gifs, !.has_gif = Len(gifs) > 0])
    /\ UNCHANGED <<Input, Apart, Loop, soup, reqs, gate, hung, lastReq, side>>

ProbeAnswers(s, base) ==
    IF find_buttons_and_blinkies_raises(s, <<>>) THEN {<<>>}
    ELSE {[k \in 1..Len(s.imgs) |->
              IF k \in Probed(s.imgs, base) THEN Received(ProbeResp(f[k]), PROBE_TIMEOUT)
              ELSE ProbeResp("nothing")] :
          f \in [1..Len(s.imgs) -> {"size", "nothing", "fail", "silent"}]}

\* buttons, blinkies = find_buttons_and_blinkies(soup, base, session)
Buttons ==
    /\ pc = "buttons"
    /\ \E probes \in ProbeAnswers(soup, get_root_url(url)) :
          LET n == IF probes = <<>> THEN 0
                   ELSE Cardinality(Probed(soup.imgs, get_root_url(url)))
          IN  /\ reqs' = Count("probe", n)
              /\ lastReq' = IF n > 0 THEN Stamp ELSE lastReq
              /\ side' = [side EXCEPT !.probes = probes]
              /\ IF find_buttons_and_blinkies_raises(soup, probes)
                 THEN Raises("buttons", "ValueError: Invalid IPv6 URL")
                 ELSE LET m == find_buttons_and_blinkies(soup, get_root_url(url), probes)
                      IN  Completes("buttons",
                             [result EXCEPT !.buttons = m.buttons,
                                            !.has_buttons = Len(m.buttons) > 0,
                                            !.blinkies = m.blinkies,
                                            !.has_blinkies = Len(m.blinkies) > 0])
    /\ UNCHANGED <<Input, Apart, Loop, soup, gate, hung>>

\* sounds = find_sounds(soup, base)
Sounds ==
    /\ pc = "sounds"
    /\ IF find_sounds_raises(soup)
       THEN Raises("sounds", "ValueError: Invalid IPv6 URL")
       ELSE LET sounds == find_sounds(soup, get_root_url(url))
            IN  Completes("sounds",
                   [result EXCEPT !.sounds = sounds, !.has_sounds = Len(sounds) > 0])
    /\ UNCHANGED <<Input, Apart, Loop, soup, reqs, gate, hung, lastReq, side>>

CssAnswers(s) ==
    IF extract_basic_styles_raises(s, <<>>) THEN {<<>>}
    ELSE {[k \in 1..Len(s.links) |->
              IF k \in Linked(s.links) THEN Received(CssResp(f[k]), REQUEST_TIMEOUT)
              ELSE CssResp("nothing")] :
          f \in [1..Len(s.links) -> {"css", "nothing", "fail", "silent"}]}

\* bg_colors, font_family, ... = extract_basic_styles(soup, base, session)
Styles ==
    /\ pc = "styles"
    /\ \E fetched \in CssAnswers(soup) :
          LET n == IF fetched = <<>> THEN 0 ELSE Cardinality(Linked(soup.links))
          IN  /\ reqs' = Count("css", n)
              /\ lastReq' = IF n > 0 THEN Stamp ELSE lastReq
              /\ side' = [side EXCEPT !.css = fetched]
              /\ IF extract_basic_styles_raises(soup, fetched)
                 THEN Raises("styles", "ValueError: Invalid IPv6 URL")
                 ELSE \E st \in StyleResults(soup, fetched) :
                         Completes("styles",
                            SetKey([result EXCEPT
                                       !.background_colors = st.background_colors,
                                       !.font_family = st.font_family,
                                       !.font_list = st.font_list,
                                       !.cursor_custom = st.cursor_custom,
                                       !.cursor_links = st.cursor_links],
                                   "has_gradients", st.has_gradients))
    /\ UNCHANGED <<Input, Apart, Loop, soup, gate, hung>>

\* main: process_url has returned (its locals are gone); res["tag"] = tag;
\* results.append(res)
AppendResult ==
    /\ pc = "append"
    /\ results' = AppendRow(results, [result EXCEPT !.tag = tag])
    /\ soup' = NoDoc
    /\ reqs' = NoReqs
    /\ gate' = NoGate
    /\ side' = NoSide
    /\ steps' = {}
    /\ raised' = "none"
    /\ pc' = "sleep"
    /\ UNCHANGED <<Input, Apart, i, url, tag, result, saved, now, hung, lastReq, prevReq, out>>

\* main: time.sleep(args.delay)
Sleep ==
    /\ pc = "sleep"
    /\ now' = now + SleepFor(results[Len(results)], delay)
    /\ pc' = "main"
    /\ UNCHANGED <<Input, Apart, i, url, tag, result, soup, results, saved, reqs, gate, hung,
                   lastReq, prevReq, side, steps, raised, out>>

\* --format as given on the command line ("" when it is left out) and the
\* suffix of --output, lower-cased.
FormatFlags == {"", "csv", "xlsx"}
Suffixes == {".csv", ".xlsx"}

\* argparse: choices=("csv","xlsx"), default="csv"
ParsedFormat(flag) == IF flag = "" THEN "csv" ELSE flag

\* if args.format == "csv" or out.lower().endswith(".csv"): save_results_csv
\* else: save_results_xlsx
Writer(format, output) ==
    IF format = "csv" \/ output = ".csv" THEN "csv" ELSE "xlsx"

\* main, after the loop: the rows are handed to the writer
Save ==
    /\ pc = "main"
    /\ i = Len(urls)
    /\ saved' = results
    /\ \E flag \in FormatFlags, output \in Suffixes :
          out' = [flag |-> flag, format |-> ParsedFormat(flag), output |-> output,
                  writer |-> Writer(ParsedFormat(flag), output)]
    /\ pc' = "done"
    /\ UNCHANGED <<Input, Apart, i, url, tag, result, soup, results, now, reqs, gate, hung,
                   lastReq, prevReq, side, steps, raised>>

Next ==
    \/ NextLine
    \/ Robots
    \/ Fetch
    \/ Extract
    \/ Language
    \/ Created
    \/ Updated
    \/ Platform
    \/ Tags
    \/ Gifs
    \/ Buttons
    \/ Sounds
    \/ Styles
    \/ AppendResult
    \/ Sleep
    \/ Save

Spec == Init /\ [][Next]_vars


----------------------------------------------------------------------------
(* The extractors as functions: SpecCalls draws an argument and calls the  *)
(* function on it, more than once.                                         *)

MaxImgs == 2
MaxCalls == 2

\* What the calls do not touch
Scraper == <<Input, Loop, pc, result, soup, reqs, gate, hung, lastReq, side, steps, raised>>

\* <img> elements: a button with its size written out, a large image named
\* like a button, an image without size, a blinkie, an image whose width is
\* no number, an image that carries both kinds of token in its name.
Images ==
    { [src |-> Ref("btn.gif", "gif", {"btn"}), w |-> 88, h |-> 31, chrome |-> FALSE],
      [src |-> Ref("navbtn.png", "png", {"btn"}), w |-> 200, h |-> 200, chrome |-> FALSE],
      [src |-> Ref("pix.png", "png", {}), w |-> Absent, h |-> Absent, chrome |-> FALSE],
      [src |-> Ref("blink.gif", "gif", {"blink"}), w |-> 150, h |-> 20, chrome |-> FALSE],
      [src |-> Ref("wide.jpg", "jpg", {}), w |-> NonNumeric, h |-> 31, chrome |-> FALSE],
      [src |-> Ref("blinkbadge.bmp", "bmp", {"blink", "badge"}), w |-> Absent, h |-> Absent,
       chrome |-> FALSE] }

MediaDocs ==
    {[NoDoc EXCEPT !.imgs = q, !.parsed = TRUE] :
        q \in UNION {[1..n -> Images] : n \in 0..MaxImgs}}

\* Date strings: empty, free text, ISO with and without offset, ISO that
\* leaves the calendar in UTC, RFC-2822, and the formatter's own output.
DateStrings ==
    { NoDate, [NoDate EXCEPT !.fmt = "text"],
      IsoDate(2021, 0), IsoDate(2021, 1), IsoDate(MINYEAR, 1),
      [IsoDate(2021, 0) EXCEPT !.aware = FALSE], RfcDate(2021),
      [NoDate EXCEPT !.fmt = "out", !.year = 2021],
      [NoDate EXCEPT !.fmt = "out", !.year = 2021, !.gmt = TRUE] }

\* Texts: their length, what detect_langs would answer, the function words
\* they contain.
Texts ==
    [len : {0, 30, 49, 50, 120},
     langs : { << <<"en", 1000>>, <<"es", 9000>> >>, << <<"pt", 6000>>, <<"es", 4000>> >>,
               << <<"fr", 10000>> >> },
     throws : BOOLEAN, es : BOOLEAN, en : BOOLEAN]

\* Pages: the host of the url and what the HTML holds of the two strings
\* detect_platform looks for.
PlatformPages ==
    [netloc : { <<"indie", "example">>, <<"kitty", "neocities", "org">>,
                <<"me", "github", "io">>, <<"me", "wordpress", "com">>,
                <<"blog", "blogspot", "com">>, <<"me", "wixsite", "com">>,
                <<"shop", "weebly", "com">>, <<"app", "glitch", "me">>,
                <<"x", "replit", "dev">> },
     body : SUBSET {"wp-content", "google.com/sites"}]

\* A keyword of the vocabulary as a run of tokens: serif is a part of
\* sans-serif.
KeywordTokens(k) == IF k = "sans-serif" THEN <<"sans", "-", "serif">> ELSE <<k>>

\* A font value as its tokens; `k in joined` is a substring test.
FontOf(tokens, first) ==
    [value |-> tokens,
     names |-> {k \in SeqRange(FontKeywords) : Contains(tokens, KeywordTokens(k))},
     first |-> first]

\* Font values: one per keyword of the vocabulary, two without any keyword.
FontValues ==
    {FontOf(KeywordTokens(k), k) : k \in SeqRange(FontKeywords)}
    \cup {FontOf(<<"papyrus", ",", "fantasy">>, "papyrus"), FontOf(<<"impact">>, "impact")}

\* Pages with a <style> block of up to two font-family declarations
FontDocs ==
    {[NoDoc EXCEPT !.parsed = TRUE,
                   !.style_tags = << [k \in 1..Len(q) |->
                                         Decl("font-family", <<>>, FALSE, q[k], "")] >>] :
        q \in UNION {[1..n -> FontValues] : n \in 0..2}}

Calls ==
    {[fn |-> "media", arg |-> d, rets |-> <<>>] : d \in MediaDocs}
    \cup {[fn |-> "format", arg |-> d, rets |-> <<>>] : d \in DateStrings}
    \cup {[fn |-> "language", arg |-> t, rets |-> <<>>] : t \in Texts}
    \cup {[fn |-> "platform", arg |-> p, rets |-> <<>>] : p \in PlatformPages}
    \cup {[fn |-> "fonts", arg |-> d, rets |-> <<>>] : d \in FontDocs}

InitCalls ==
    /\ urls = <<>>
    /\ delay = 0
    /\ Start
    /\ call \in Calls
    /\ sample = NoSample
    /\ visual = NoVisual

Returns(value) ==
    /\ call' = [call EXCEPT !.rets = Append(@, value)]
    /\ UNCHANGED <<Scraper, sample, visual>>

\* gifs = find_gifs(soup, base);
\* buttons, blinkies = find_buttons_and_blinkies(soup, base, session)
CallMedia ==
    /\ call.fn = "media"
    /\ Len(call.rets) < MaxCalls
    /\ \E probes \in ProbeAnswers(call.arg, get_root_url(U_indie)) :
          Returns([gifs |-> find_gifs(call.arg, get_root_url(U_indie)),
                   media |-> find_buttons_and_blinkies(call.arg, get_root_url(U_indie), probes)])

\* The exception that leaves format_datetime_iso, in place of a value
Overflow == [NoDate EXCEPT !.fmt = "raised"]

\* format_datetime_iso(date_str, include_gmt), then again on what it returned
CallFormat ==
    /\ call.fn = "format"
    /\ Len(call.rets) < MaxCalls
    /\ LET date_str == IF call.rets = <<>> THEN call.arg ELSE call.rets[Len(call.rets)]
       IN  /\ date_str # Overflow
           /\ \E include_gmt \in BOOLEAN :
                 Returns(IF format_datetime_raises(date_str) THEN Overflow
                         ELSE format_datetime_iso(date_str, include_gmt))

\* detect_language_profile(text)
CallLanguage ==
    /\ call.fn = "language"
    /\ Len(call.rets) < MaxCalls
    /\ Returns([profile |-> detect_language_profile(call.arg),
                detector |-> detect_langs_called(call.arg)])

\* detect_platform(url, html_text)
CallPlatform ==
    /\ call.fn = "platform"
    /\ Len(call.rets) < MaxCalls
    /\ Returns(detect_platform([U_indie EXCEPT !.netloc = call.arg.netloc], call.arg.body))

\* bg_colors, font_family, ... = extract_basic_styles(soup, base_url, session)
CallFonts ==
    /\ call.fn = "fonts"
    /\ Len(call.rets) < MaxCalls
    /\ \E st \in StyleResults(call.arg, <<>>) : Returns(st.font_family)

NextCalls ==
    \/ CallMedia
    \/ CallFormat
    \/ CallLanguage
    \/ CallPlatform
    \/ CallFonts

SpecCalls == InitCalls /\ [][NextCalls]_vars

----------------------------------------------------------------------------
(* visualscraper_v2.py.  An image is the list of the pixel counts of its   *)
(* distinct colours (the 150x150 thumbnail, scaled down to Pixels pixels). *)

MaxColors == 3
Pixels == 4

VisualUrls ==
    { [scheme |-> "https", rest |-> "site_a"], [scheme |-> "http", rest |-> "site_a"],
      [scheme |-> "https", rest |-> "site_b"] }

\* name = url.replace("https://", "").replace("http://", "").replace("/", "_");
\* screenshots/<name>.png
screenshot_path(u) == u.rest

\* An image: what it shows and which capture of this run wrote it (0 for a
\* file no capture of this run wrote), and its pixels by colour.
NoFile == [id |-> <<"none", 0>>, pixels |-> <<>>]

\* What a capture can write: a page of one colour, of two, of three.
Shots ==
    { [id |-> <<"plain", 0>>, pixels |-> <<Pixels>>],
      [id |-> <<"duo", 0>>, pixels |-> <<Pixels - 1, 1>>],
      [id |-> <<"trio", 0>>, pixels |-> <<Pixels - 2, 1, 1>>] }

\* screenshots/ as an earlier run may have left it
Disks ==
    [{screenshot_path(u) : u \in VisualUrls} ->
        {NoFile, [id |-> <<"stale", 0>>, pixels |-> <<2, Pixels - 2>>]}]

RECURSIVE Sum(_)
Sum(q) == IF q = <<>> THEN 0 ELSE q[1] + Sum(Tail(q))

\* kmeans.labels_ of KMeans(n_clusters=n).fit: the label of each distinct
\* colour.  Equal pixels get equal labels; with fewer distinct colours than
\* clusters only that many labels are used (the ConvergenceWarning the
\* module silences), and a single colour is label 0.
KMeansLabels(d, n) ==
    IF d = 1 THEN {[c \in 1..d |-> 0]}
    ELSE {f \in [1..d -> 0..(n - 1)] :
             Cardinality({f[c] : c \in 1..d}) = IF n < d THEN n ELSE d}

\* hex_colors: one per cluster centre; proportions: counts / total with
\* counts = np.bincount(labels_), as long as the highest label used.
extract_colors(img, n, labels) ==
    LET d == Len(img.pixels)
        top == CHOOSE l \in {labels[c] : c \in 1..d} : \A c \in 1..d : labels[c] <= l
    IN  [hex_colors |-> [j \in 1..n |-> <<img.id, j - 1>>],
         proportions |->
             [j \in 1..(top + 1) |->
                 [count |-> Sum([c \in 1..d |-> IF labels[c] = j - 1 THEN img.pixels[c] ELSE 0]),
                  total |-> Sum(img.pixels)]]]

\* round(float(prop) * 100, 2), in units of 0.01
Round2(prop) == (prop.count * 20000 + prop.total) \div (2 * prop.total)

\* for i, (col, prop) in enumerate(zip(hex_colors, proportions), start=1):
\*     data[f"color_{i}"] = col; data[f"prop_{i}"] = round(float(prop) * 100, 2)
PaletteEntries(hex_colors, proportions) ==
    LET n == IF Len(hex_colors) < Len(proportions) THEN Len(hex_colors) ELSE Len(proportions)
    IN  [j \in 1..n |-> [color |-> hex_colors[j], prop |-> Round2(proportions[j])]]

\* if args.format == "xlsx" or args.output.endswith(".xlsx"): df.to_excel
\* else: df.to_csv
VisualWriter(format, output) ==
    IF format = "xlsx" \/ output = ".xlsx" THEN "xlsx" ELSE "csv"

InitVisual ==
    /\ urls = <<>>
    /\ delay = 0
    /\ Start
    /\ call = NoCall
    /\ sample = NoSample
    /\ visual \in
          {[NoVisual EXCEPT !.pc = "capture", !.urls = us, !.colors = n, !.k = 1, !.disk = d] :
              us \in UNION {[1..m -> VisualUrls] : m \in 1..MaxUrls},
              n \in 1..MaxColors, d \in Disks}

\* await capture_screenshot(url, screenshot_path): the page is written to
\* the path and "[OK] Captura guardada" is printed, or the exception is
\* printed and the path is left as it was.
Capture ==
    /\ visual.pc = "capture"
    /\ visual.k <= Len(visual.urls)
    /\ \/ \E shot \in Shots :
             visual' = [visual EXCEPT !.pc = "palette",
                                      !.captured = @ \cup {visual.k},
                                      !.disk[screenshot_path(visual.urls[visual.k])] =
                                          [shot EXCEPT !.id[2] = visual.k]]
       \/ visual' = [visual EXCEPT !.pc = "palette"]
    /\ UNCHANGED <<Scraper, call, sample>>

\* if os.path.exists(screenshot_path): extract_colors, create_palette_image,
\* results.append(data).  The heatmap written before it leaves no trace in
\* the row but its path.
Palette ==
    /\ visual.pc = "palette"
    /\ LET u == visual.urls[visual.k]
           img == visual.disk[screenshot_path(u)]
       IN  IF img = NoFile
           THEN visual' = [visual EXCEPT !.pc = "capture", !.k = @ + 1]
           ELSE \E labels \in KMeansLabels(Len(img.pixels), visual.colors) :
                   LET e == extract_colors(img, visual.colors, labels)
                       data == [url |-> u, screenshot |-> screenshot_path(u),
                                palette |-> PaletteEntries(e.hex_colors, e.proportions)]
                   IN  visual' = [visual EXCEPT !.pc = "capture", !.k = @ + 1,
                                                !.results = Append(@, data)]
    /\ UNCHANGED <<Scraper, call, sample>>

\* main, after the loop: df.to_excel or df.to_csv
SaveVisual ==
    /\ visual.pc = "capture"
    /\ visual.k > Len(visual.urls)
    /\ \E flag \in FormatFlags, output \in Suffixes :
          visual' = [visual EXCEPT
                        !.pc = "done",
                        !.out = [flag |-> flag, format |-> ParsedFormat(flag),
                                 output |-> output,
                                 writer |-> VisualWriter(ParsedFormat(flag), output)]]
    /\ UNCHANGED <<Scraper, call, sample>>

NextVisual ==
    \/ Capture
    \/ Palette
    \/ SaveVisual

SpecVisual == InitVisual /\ [][NextVisual]_vars

----------------------------------------------------------------------------
(* old/lista_neo.py and old/lista_neo_es.py.  The limits of the scripts    *)
(* (20 rows per year, 2000 samplings, 5000 API queries, a flush every 20   *)
(* samplings) are scaled down.                                             *)

TARGET_PER_YEAR == 1
MAX_ATTEMPTS == 3
MAX_SITENAME_CHECKS == 5
FLUSH_EVERY == 2

YEARS == {2020, 2021, 2022}

\* What /api/info knows of a site.  More sites of 2020 than the target, a
\* site of 2021 and one of 2022, one older than the range, one without
\* created_at, one whose title and description are not Spanish.
SiteInfos ==
    {[sitename |-> <<2020, k>>, created_at |-> RfcDate(2020), spanish |-> TRUE] :
        k \in 1..(TARGET_PER_YEAR + 1)}
    \cup { [sitename |-> <<2021, 1>>, created_at |-> RfcDate(2021), spanish |-> TRUE],
           [sitename |-> <<2021, 2>>, created_at |-> RfcDate(2021), spanish |-> FALSE],
           [sitename |-> <<2022, 1>>, created_at |-> RfcDate(2022), spanish |-> TRUE],
           [sitename |-> <<2019, 1>>, created_at |-> RfcDate(2019), spanish |-> TRUE],
           [sitename |-> <<0, 1>>, created_at |-> NoDate, spanish |-> TRUE] }

NoInfo == [sitename |-> <<0, 0>>, created_at |-> NoDate, spanish |-> FALSE]

\* The site a name extracted from a link stands for.  A host name reads the
\* same in capitals and in small letters: <<g, -k>> is <<g, k>> as a link
\* in another spelling gives it.
SiteOf(s) == <<s[1], IF s[2] < 0 THEN 0 - s[2] ELSE s[2]>>

\* get_site_info(sitename): the info of the site, or None on any failure
\* (a name the API does not know included)
get_site_info(s) == {NoInfo} \cup {info \in SiteInfos : info.sitename = SiteOf(s)}

\* extract_sitenames_from_browse(soup) of the pages /browse can show: the
\* names are taken from the links as they are spelt.
BrowsePages ==
    { {<<2020, k>> : k \in 1..(TARGET_PER_YEAR + 1)} \cup {<<0, 1>>},
      {<<2020, 1>>, <<2021, 1>>, <<2019, 1>>},
      {<<2021, 2>>, <<2021, -1>>, <<2022, 1>>} }

\* get_soup(url, tries=3)
tries == 3

\* get_soup: the GETs are sent until one succeeds, three at most; ok[k] says
\* whether the k-th would succeed.
get_soup(ok) ==
    LET good == {k \in 1..tries : ok[k]}
    IN  IF good = {} THEN [soup |-> FALSE, gets |-> tries]
        ELSE [soup |-> TRUE, gets |-> CHOOSE k \in good : \A j \in good : k <= j]

\* robots_allows(path): an exception of rp.read() is answered False
robots_allows(outcome) ==
    IF outcome \in {"network_error", "undecodable"} THEN FALSE ELSE can_fetch_url(outcome)

\* parse_created_at(created_at_str).year; 0 stands for None
parse_created_at(created_at_str) ==
    IF created_at_str.fmt = "rfc" THEN created_at_str.year ELSE 0

\* all(counts[y] >= TARGET_PER_YEAR for y in YEARS)
AllCollected(counts) == \A y \in YEARS : counts[y] >= TARGET_PER_YEAR

\* Variant: a site of a sampled year is collected whatever the count.
CollectsUncapped(year, counts) == year \in YEARS

\* if year in YEARS and counts[year] < TARGET_PER_YEAR
Collects(year, counts) == year \in YEARS /\ counts[year] < TARGET_PER_YEAR

\* while attempts < MAX_ATTEMPTS and api_calls < MAX_SITENAME_CHECKS, and
\* the break at the head of the body
Sampling(m) ==
    /\ m.attempts < MAX_ATTEMPTS
    /\ m.api_calls < MAX_SITENAME_CHECKS
    /\ ~AllCollected(m.counts)

InitSample ==
    /\ urls = <<>>
    /\ delay = 0
    /\ Start
    /\ call = NoCall
    /\ visual = NoVisual
    /\ sample \in {[NoSample EXCEPT !.pc = "robots", !.es = es] : es \in BOOLEAN}

\* if not robots_allows("/browse"): return.  rp.read() has no timeout.
SampleRobots ==
    /\ sample.pc = "robots"
    /\ \E answer \in RobotsOutcomes :
          LET outcome == Settle(answer, NoTimeout)
          IN  sample' = [sample EXCEPT
                            !.pc = IF outcome = "hangs" THEN "hung"
                                   ELSE IF robots_allows(outcome) THEN "estimate" ELSE "done",
                            !.note = IF outcome = "hangs" THEN "hangs"
                                     ELSE IF robots_allows(outcome) THEN "allowed" ELSE "aborted"]
    /\ UNCHANGED <<Scraper, call, visual>>

\* max_pages = estimate_max_pages(); counts, collected, seen_sitenames,
\* attempts, api_calls, rows_to_save are set up
Estimate ==
    /\ sample.pc = "estimate"
    /\ \E ok \in [1..tries -> BOOLEAN] :
       \E max_pages \in IF get_soup(ok).soup THEN {Cardinality(BrowsePages), 2000} ELSE {2000} :
          sample' = [sample EXCEPT !.pc = "loop", !.max_pages = max_pages,
                                   !.gets = get_soup(ok).gets,
                                   !.counts = [y \in YEARS |-> 0],
                                   !.collected = [y \in YEARS |-> <<>>]]
    /\ UNCHANGED <<Scraper, call, visual>>

\* One sampling: soup = get_soup(browse_url); attempts += 1; without a soup
\* the body is left with continue, else the shuffled site names are taken.
SamplePage ==
    /\ sample.pc = "loop"
    /\ Sampling(sample)
    /\ \E ok \in [1..tries -> BOOLEAN] :
          IF ~get_soup(ok).soup
          THEN sample' = [sample EXCEPT !.attempts = @ + 1, !.gets = get_soup(ok).gets,
                                        !.note = "no_page"]
          ELSE \E page \in BrowsePages : \E sitenames \in SetToSeqs(page) :
                  sample' = [sample EXCEPT !.attempts = @ + 1, !.gets = get_soup(ok).gets,
                                           !.pc = "sites", !.sitenames = sitenames,
                                           !.note = "page"]
    /\ UNCHANGED <<Scraper, call, visual>>

\* One turn of for s in sitenames
CheckSite ==
    /\ sample.pc = "sites"
    /\ sample.sitenames # <<>>
    /\ sample.api_calls < MAX_SITENAME_CHECKS
    /\ LET s == sample.sitenames[1]
           rest == Tail(sample.sitenames)
       IN  IF s \in sample.seen_sitenames
           THEN sample' = [sample EXCEPT !.sitenames = rest, !.note = "seen"]
           ELSE \E info \in get_site_info(s) :
                   LET asked == [sample EXCEPT !.seen_sitenames = @ \cup {s},
                                               !.api_calls = @ + 1, !.sitenames = rest]
                       year == parse_created_at(info.created_at)
                       row == [sitename |-> info.sitename, created_at |-> info.created_at,
                               year |-> year]
                       counts == [sample.counts EXCEPT ![year] = @ + 1]
                   IN  IF info = NoInfo \/ info.created_at = NoDate \/ year = 0
                       THEN sample' = [asked EXCEPT !.note = "no_date"]
                       ELSE IF sample.es /\ ~info.spanish
                       THEN sample' = [asked EXCEPT !.note = "not_spanish"]
                       ELSE IF ~Collects(year, sample.counts)
                       THEN sample' = [asked EXCEPT !.note = "not_collected"]
                       ELSE sample' =
                               [asked EXCEPT
                                   !.rows_to_save = Append(@, row),
                                   !.collected[year] = Append(@, row),
                                   !.counts = counts,
                                   !.sitenames = IF AllCollected(counts) THEN <<>> ELSE rest,
                                   !.note = "collected"]
    /\ UNCHANGED <<Scraper, call, visual>>

\* After the for loop: if attempts % 20 == 0 and rows_to_save:
\* save_results(rows_to_save); rows_to_save = [].  save_results logs an
\* exception and returns.
EndPage ==
    /\ sample.pc = "sites"
    /\ sample.sitenames = <<>> \/ sample.api_calls >= MAX_SITENAME_CHECKS
    /\ IF sample.attempts % FLUSH_EVERY = 0 /\ sample.rows_to_save # <<>>
       THEN \E written \in BOOLEAN :
               sample' = [sample EXCEPT
                             !.pc = "loop", !.sitenames = <<>>, !.rows_to_save = <<>>,
                             !.file = IF written THEN @ \o sample.rows_to_save ELSE @,
                             !.note = IF written THEN "flushed" ELSE "flush_failed"]
       ELSE sample' = [sample EXCEPT !.pc = "loop", !.sitenames = <<>>]
    /\ UNCHANGED <<Scraper, call, visual>>

\* The loop is over: if rows_to_save: save_results(rows_to_save)
Finish ==
    /\ sample.pc = "loop"
    /\ ~Sampling(sample)
    /\ \E written \in BOOLEAN :
          sample' = [sample EXCEPT
                        !.pc = "done",
                        !.file = IF written THEN @ \o sample.rows_to_save ELSE @]
    /\ UNCHANGED <<Scraper, call, visual>>

NextSample ==
    \/ SampleRobots
    \/ Estimate
    \/ SamplePage
    \/ CheckSite
    \/ EndPage
    \/ Finish

SpecSample == InitSample /\ [][NextSample]_vars

----------------------------------------------------------------------------
(* Properties of main and process_url *)

Rows == 1..Len(results)

\* The row a line yields when nothing but url, tag and error is filled in.
EmptyRow(k, msg) ==
    [DefaultResult(LineUrl(urls[k])) EXCEPT !.tag = LineTag(urls[k]), !.error = msg]

\* C1: every line of urls yields exactly one row, in order, with the url and
\* the tag of its line, whatever happened while the line was processed; when
\* the loop is over there are as many rows as lines.
C1_OneRowPerLine ==
    /\ Len(results) \in {i - 1, i}
    /\ pc \in {"sleep", "main", "done"} => Len(results) = i
    /\ pc = "done" => Len(results) = Len(urls) /\ saved = results
    /\ \A k \in Rows :
          results[k].url = LineUrl(urls[k]) /\ results[k].tag = LineTag(urls[k])

C1_Witness ==
    /\ pc = "done"
    /\ Len(results) >= 2
    /\ results[1].error \notin {"", BlockedMsg}
    /\ results[2].error = ""

\* C2: a line the robots gate refuses sends nothing but the robots.txt read,
\* and its row holds the block reason and otherwise only default values.
C2_BlockedRowIsEmpty ==
    /\ (pc = "append" /\ gate.outcome # "none" /\ ~gate.allowed) =>
          /\ reqs = [NoReqs EXCEPT !.robots = 1]
          /\ soup = NoDoc
          /\ result = [DefaultResult(url) EXCEPT !.error = BlockedMsg]
    /\ (gate.outcome # "none" /\ ~gate.allowed) => pc = "append"
    /\ \A k \in Rows : results[k].error = BlockedMsg => results[k] = EmptyRow(k, BlockedMsg)

C2_Witness ==
    /\ pc = "append"
    /\ gate.outcome = "disallows"
    /\ result.error = BlockedMsg

\* C3: a row with a non-empty error holds default values in every other
\* field but url and tag.
C3_ErrorRowIsEmpty ==
    \A k \in Rows : results[k].error # "" => results[k] = EmptyRow(k, results[k].error)

\* C4: when one extractor step of a fetched page fails, every other
\* extractor step, the later ones included, still completes for the row.
C4_ExtractorFailureIsLocal ==
    (pc = "append" /\ raised \in SeqRange(Pipeline)) =>
        steps = SeqRange(Pipeline) \ {raised}

\* C5: whenever robots.txt cannot be obtained or read (network error, error
\* response, undecodable file) the gate answers true and logs the assumption.
RobotsFailures == {"network_error", "undecodable", "http_401_403", "http_5xx"}

C5_GateFailsOpen ==
    gate.outcome \in RobotsFailures => gate.allowed /\ gate.logged

\* C6: two lines with the same url get the same answer from the robots gate,
\* whatever the robots.txt fetch did on each call.
C6_SameUrlSameAnswer ==
    \A j, k \in Rows :
        results[j].url = results[k].url =>
            (results[j].error = BlockedMsg <=> results[k].error = BlockedMsg)

C8_DelayBetweenLines ==
    /\ lastReq.line <= i
    /\ prevReq.line <= lastReq.line
    /\ (lastReq.line > 1 /\ prevReq.line = lastReq.line - 1) =>
          lastReq.at >= prevReq.at + delay

C8_Witness ==
    /\ lastReq.line = 2
    /\ prevReq.line = 1
    /\ Len(results) = 1
    /\ results[1].error = BlockedMsg
    /\ reqs.page = 1

\* C9: no network operation of a line waits for ever on a host that never
\* answers: each is bounded by a timeout, so process_url returns.
C9_EveryRequestBounded == hung = "none"

\* The answers with every failed side-fetch replaced by an answer that
\* carries nothing.
QuietApi(resp) == IF resp.kind = "fail" THEN ApiResp("empty") ELSE resp
QuietHead(head) == IF head.kind = "fail" THEN HeadResp("nothing") ELSE head
QuietProbes(probes) ==
    [k \in DOMAIN probes |-> IF probes[k].kind = "fail" THEN ProbeResp("nothing") ELSE probes[k]]
QuietCss(fetched) ==
    [k \in DOMAIN fetched |-> IF fetched[k].kind = "fail" THEN CssResp("nothing") ELSE fetched[k]]

StyleFields(r) ==
    [background_colors |-> r.background_colors, font_family |-> r.font_family,
     cursor_custom |-> r.cursor_custom, font_list |-> r.font_list,
     cursor_links |-> r.cursor_links, has_gradients |-> r.has_gradients]

\* C10: a failed side-fetch (stylesheet GET, image probe, HEAD, platform API)
\* is caught where it is made: it never reaches the handler of process_url,
\* the row's error stays empty, and every field has the value it has when the
\* side-fetch returns nothing.
C10_SideFetchFailureIsLocal ==
    LET base == get_root_url(url)
        media == find_buttons_and_blinkies(soup, base, QuietProbes(side.probes))
    IN  /\ (pc = "append" /\ gate.allowed /\ raised = "none") =>
              /\ result.error = ""
              /\ result.created_at = get_creation_date(url, soup, QuietApi(side.created))
              /\ result.last_updated =
                     get_last_update_date(url, soup, QuietApi(side.updated),
                                          QuietHead(side.head))
              /\ result.tags_api = get_neocities_tags(url, QuietApi(side.tags))
              /\ result.buttons = media.buttons
              /\ result.blinkies = media.blinkies
              /\ StyleFields(result) \in StyleResults(soup, QuietCss(side.css))
        /\ (pc = "append" /\ raised = "created") =>
              get_creation_date_raises(url, soup, QuietApi(side.created))
        /\ (pc = "append" /\ raised = "updated") =>
              get_last_update_date_raises(url, soup, QuietApi(side.updated))
        /\ (pc = "append" /\ raised = "buttons") =>
              find_buttons_and_blinkies_raises(soup, QuietProbes(side.probes))
        /\ (pc = "append" /\ raised = "styles") =>
              extract_basic_styles_raises(soup, QuietCss(side.css))
        /\ raised # "tags"

C10_Witness ==
    /\ pc = "append"
    /\ raised = "none"
    /\ result.error = ""
    /\ url = U_indie
    /\ side.head = HeadResp("fail")
    /\ side.css = <<CssResp("fail")>>
    /\ side.probes[2] = ProbeResp("fail")
    /\ result.title # ""

----------------------------------------------------------------------------
(* Properties of the extracted fields *)

NoDup(q) == \A a, b \in 1..Len(q) : a # b => q[a] # q[b]

SetFields ==
    {"gifs", "buttons", "blinkies", "sounds", "background_colors", "font_list",
     "cursor_links", "tags_api"}

\* The values the rules of css declare, in the order of the text.
SeenColors(css) ==
    Flatten([k \in 1..Len(css) |->
                IF css[k].ruled /\ css[k].name \in ColorProps THEN css[k].colors ELSE <<>>])
SeenFonts(css) ==
    Flatten([k \in 1..Len(css) |->
                IF css[k].ruled /\ css[k].name \in FontProps THEN <<css[k].font>> ELSE <<>>])
SeenCursors(css) ==
    Flatten([k \in 1..Len(css) |->
                IF css[k].ruled /\ css[k].name = "cursor" /\ css[k].cursor # ""
                THEN <<css[k].cursor>> ELSE <<>>])

\* C11: in every row each set-valued field holds no string twice, and the
\* style lists and the API tags list their entries in the order in which
\* the stylesheet text and the API answer first show them.
C11_FirstSeenOrder ==
    /\ \A k \in Rows : \A f \in SetFields : NoDup(results[k][f])
    /\ (pc = "append" /\ raised = "none" /\ gate.allowed) =>
          LET css == CssAll(soup, side.css)
          IN  /\ result.background_colors = Dedup(SeenColors(css))
              /\ result.font_list = Dedup(SeenFonts(css))
              /\ result.cursor_links = Dedup(SeenCursors(css))
              /\ result.tags_api = Dedup(side.tags.tags)

\* The classification rule: the size written in the element lies in the
\* range, or the file name holds a token of the class.
InRange(img, ws, hs) ==
    /\ img.w \notin {Absent, NonNumeric} /\ img.h \notin {Absent, NonNumeric}
    /\ ws[1] <= img.w /\ img.w <= ws[2] /\ hs[1] <= img.h /\ img.h <= hs[2]
ButtonByRule(img) ==
    InRange(img, <<70, 100>>, <<12, 35>>)
        \/ img.src.tokens \cap {"button", "badge", "btn", "88x31", "80x15"} # {}
BlinkieByRule(img) ==
    InRange(img, <<120, 160>>, <<18, 25>>)
        \/ img.src.tokens \cap {"blink", "blinkie", "150x20"} # {}

Returned == {call.rets[k] : k \in 1..Len(call.rets)}

\* C12: an image is returned as a button exactly when its written size lies
\* in [70,100]x[12,35] or its file name holds a button token, as a blinkie
\* exactly when its written size lies in [120,160]x[18,25] or its file name
\* holds a blinkie token, with or without a written size; a .gif image is
\* among the gifs whatever else it is.
C12_ClassifiedByRule ==
    call.fn = "media" =>
        \A r \in Returned : \A k \in 1..Len(call.arg.imgs) :
            LET img == call.arg.imgs[k]
                full == urljoin(get_root_url(U_indie), img.src)
            IN  /\ full \in SeqRange(r.media.buttons) <=> ButtonByRule(img)
                /\ full \in SeqRange(r.media.blinkies) <=> BlinkieByRule(img)
                /\ img.src.ext = "gif" => full \in SeqRange(r.gifs)

\* C13: two runs of find_gifs and find_buttons_and_blinkies over the same
\* document return the same gifs, buttons and blinkies, whatever the image
\* probes answer in each run.
C13_MediaIdempotent ==
    call.fn = "media" => \A r, t \in Returned : r = t

\* C14: formatting what format_datetime_iso returned gives the same string
\* again, for either setting of the GMT marker; a string that parses in
\* neither syntax comes back unchanged and the empty string comes back empty.
C14_FormatIdempotent ==
    call.fn = "format" =>
        /\ \A k \in 2..Len(call.rets) : call.rets[k] = call.rets[1]
        /\ (call.rets # <<>> /\ ~Parses(call.arg)) => call.rets[1] = call.arg
        /\ (call.rets # <<>> /\ call.arg = NoDate) => call.rets[1] = NoDate

C14_Witness ==
    /\ call.fn = "format"
    /\ call.arg = IsoDate(2021, 1)
    /\ Len(call.rets) = 2
    /\ call.rets[2] = [NoDate EXCEPT !.fmt = "out", !.year = 2020, !.gmt = TRUE]

\* C15: a text shorter than 50 characters, the empty text included, gets the
\* empty profile (no language, confidence 0, no list, not multilingual) and
\* the detector is not called, whatever it would have answered.
C15_ShortTextNoProfile ==
    call.fn = "language" =>
        \A r \in Returned :
            call.arg.len < 50 => r.profile = NoProfile /\ ~r.detector

C15_Witness ==
    /\ call.fn = "language"
    /\ call.arg.len = 49
    /\ ~call.arg.throws
    /\ call.rets # <<>>
    /\ call.rets[1].profile.language = ""

\* The labels of the platform enumeration, as detect_platform spells them
Platforms ==
    {"Neocities", "GitHub Pages", "Netlify", "Vercel", "WordPress", "Blogger", "Wix",
     "Weebly", "Glitch", "Replit", "Google Sites", "Unknown"}

\* C16: the platform of every row, the rows of blocked and failed lines
\* included, is a label of the enumeration.
C16_PlatformIsLabel ==
    \A k \in Rows : results[k].platform \in Platforms

\* C17: the writer is the one the format flag names; without the flag it is
\* the one the suffix of the output path names: .xlsx the spreadsheet, .csv
\* the comma-separated table.
C17_WriterAsAsked ==
    pc = "done" =>
        /\ out.flag # "" => out.writer = out.flag
        /\ (out.flag = "" /\ out.output = ".xlsx") => out.writer = "xlsx"
        /\ (out.flag = "" /\ out.output = ".csv") => out.writer = "csv"

\* The value the platform API gives for a field: none off the platform, on
\* a failed call, or when the answer lacks the field.
ApiValue(u, resp, field) ==
    IF IsNeocities(u) /\ resp.kind = "full" THEN resp[field] ELSE NoDate

\* The first of the values, in order, that is not empty
RECURSIVE FirstValue(_)
FirstValue(values) ==
    IF values = <<>> THEN NoDate
    ELSE IF values[1] # NoDate THEN values[1]
    ELSE FirstValue(Tail(values))

\* C20: created_at is the API value when the platform API gives one, else
\* the value of the first candidate tag of the fetched document that carries
\* one; last_updated likewise, and when both are missing, the Last-Modified
\* header of a HEAD request, else empty.  Resolving created_at sends no HEAD
\* request, and HEAD is sent only when API and document gave nothing.
C20_TimestampPrecedence ==
    LET doc == PageAt(url)
        created == <<ApiValue(url, side.created, "created_at"), FirstMeta(doc, CreationTags)>>
        updated == <<ApiValue(url, side.updated, "last_updated"), FirstMeta(doc, UpdateTags),
                     IF side.head.kind = "lastmod" THEN side.head.value ELSE NoDate>>
    IN  /\ "created" \in steps =>
              result.created_at = format_datetime_iso(FirstValue(created), TRUE)
        /\ "updated" \in steps =>
              result.last_updated = format_datetime_iso(FirstValue(updated), TRUE)
        /\ pc = "updated" => reqs.head = 0
        /\ reqs.head > 0 => updated[1] = NoDate /\ updated[2] = NoDate

\* C18: the palette of every row has exactly as many entries as colours were
\* asked for, and its proportions add up to 100 within 0.5, also for an
\* image with fewer distinct colours than that.
C18_PaletteComplete ==
    \A k \in 1..Len(visual.results) :
        LET palette == visual.results[k].palette
            total == Sum([j \in 1..Len(palette) |-> palette[j].prop])
        IN  /\ Len(palette) = visual.colors
            /\ 9950 <= total /\ total <= 10050

\* The rows the sampling run has collected so far
Collected == UNION {SeqRange(sample.collected[y]) : y \in DOMAIN sample.collected}

\* C19: at every point of a sampling run, for each year of 2020..2022 the
\* rows collected for the year are as many as counts says and no more than
\* TARGET_PER_YEAR, each row is of the year it is filed under, and no row of
\* another year is collected or queued for the file.
C19_CountsMatchRows ==
    sample.pc \in {"loop", "sites", "done"} /\ sample.note # "aborted" =>
        /\ DOMAIN sample.counts = YEARS
        /\ \A y \in YEARS :
              /\ Len(sample.collected[y]) = sample.counts[y]
              /\ sample.counts[y] <= TARGET_PER_YEAR
              /\ \A k \in 1..Len(sample.collected[y]) : sample.collected[y][k].year = y
        /\ SeqRange(sample.rows_to_save) \cup SeqRange(sample.file) \subseteq Collected
        /\ \A r \in Collected : r.year \in YEARS

C19_Witness ==
    /\ sample.pc = "sites"
    /\ sample.counts[2020] = TARGET_PER_YEAR
    /\ sample.note = "not_collected"
    /\ Cardinality(sample.seen_sitenames \cap {<<2020, k>> : k \in 1..(TARGET_PER_YEAR + 1)})
          = TARGET_PER_YEAR + 1
    /\ sample.api_calls = TARGET_PER_YEAR + 1

\* The label of the first host rule the host matches, "" when it matches none
HostLabel(netloc) ==
    IF Contains(netloc, <<"neocities", "org">>) THEN "Neocities"
    ELSE IF Contains(netloc, <<"github", "io">>) THEN "GitHub Pages"
    ELSE IF Contains(netloc, <<"netlify", "app">>) THEN "Netlify"
    ELSE IF Contains(netloc, <<"vercel", "app">>) THEN "Vercel"
    ELSE IF Contains(netloc, <<"wordpress", "com">>) THEN "WordPress"
    ELSE IF Contains(netloc, <<"blogspot">>) THEN "Blogger"
    ELSE IF Contains(netloc, <<"wixsite", "com">>) THEN "Wix"
    ELSE IF Contains(netloc, <<"weebly", "com">>) THEN "Weebly"
    ELSE IF Contains(netloc, <<"glitch", "me">>) THEN "Glitch"
    ELSE IF Contains(netloc, <<"replit", "dev">>) \/ Contains(netloc, <<"repl", "co">>)
         THEN "Replit"
    ELSE ""

\* C21: a host that matches a host rule gets the label of the first such
\* rule whatever the HTML holds; a host that matches none is WordPress when
\* the HTML holds wp-content and Unknown otherwise (the HTML is consulted
\* for the WordPress rule only).
C21_HostRulesFirst ==
    call.fn = "platform" =>
        \A r \in Returned :
            IF HostLabel(call.arg.netloc) # ""
            THEN r = HostLabel(call.arg.netloc)
            ELSE r = IF "wp-content" \in call.arg.body THEN "WordPress" ELSE "Unknown"

\* The language the detector ranks first for a text
TopLang(text) == SortDesc(text.langs)[1][1]

Confusable == {"sw", "pt", "no", "ca"}

\* C22: when the detector answers, a top language of sw, pt, no or ca with a
\* Spanish function word in the text gives the primary language es; a
\* primary that is then neither es nor en, with English function words in
\* the text, gives en; a text relabelled es is not relabelled en, and a
\* detected es or en is returned as it is.
C22_CorrectionRules ==
    call.fn = "language" =>
        \A r \in Returned :
            r.detector /\ ~call.arg.throws =>
                LET top == TopLang(call.arg)
                    spanish == top \in Confusable /\ call.arg.es
                IN  /\ spanish => r.profile.language = "es"
                    /\ (~spanish /\ top \notin {"es", "en"} /\ call.arg.en) =>
                          r.profile.language = "en"
                    /\ top \in {"es", "en"} => r.profile.language = top
                    /\ (~spanish /\ ~call.arg.en) => r.profile.language = top

C22_Witness ==
    /\ call.fn = "language"
    /\ call.arg.len = 120
    /\ ~call.arg.throws
    /\ TopLang(call.arg) = "pt"
    /\ call.arg.es
    /\ call.arg.en
    /\ call.rets # <<>>
    /\ call.rets[1].profile.language = "es"

\* The probability the detector gave to a language, 0 when it did not name it
ProbOf(text, lang) ==
    LET hits == SelectSeq(text.langs, LAMBDA e : e[1] = lang)
    IN  IF hits = <<>> THEN 0 ELSE hits[1][2]

\* C26: a returned profile with a primary language lists that language
\* among the detected ones, carries as confidence the probability the
\* detector gave to that language, and the confidence lies in [0, 1].
C26_ProfileConsistent ==
    call.fn = "language" =>
        \A r \in Returned :
            r.profile.language # "" =>
                /\ Contains(r.profile.all_langs, <<r.profile.language>>)
                /\ r.profile.confidence = ProbOf(call.arg, r.profile.language)
                /\ r.profile.confidence \in 0..10000

\* The font values of a page in the order of their declarations
Declared(doc) == [k \in 1..Len(doc.style_tags[1]) |-> doc.style_tags[1][k].font]

\* The vocabulary keywords the declared fonts name
Named(doc) ==
    {k \in SeqRange(FontKeywords) : \E f \in SeqRange(Declared(doc)) : f.value = KeywordTokens(k)}

\* C23: the font family is the earliest keyword of the vocabulary that the
\* declared fonts name (so fonts naming one keyword k give k); without any
\* keyword it is the first comma segment of the first declared font value;
\* every run over the same CSS gives the same answer.
C23_FontFamily ==
    call.fn = "fonts" =>
        \A r \in Returned :
            /\ Named(call.arg) # {} => r = FirstKeyword(FontKeywords, Named(call.arg))
            /\ (Named(call.arg) = {} /\ Declared(call.arg) # <<>>) =>
                  r = Declared(call.arg)[1].first
            /\ \A t \in Returned : t = r

\* C24: of the queries one url sends to the platform API (creation date,
\* last update, tags) each is sent later than the one before it, and the
\* robots.txt lookup of a line is later than that of the line before.
C24_QueriesSpaced ==
    /\ \A j, k \in 1..Len(side.api_at) : j < k => side.api_at[j] < side.api_at[k]
    /\ (reqs.robots > 0 /\ prevReq # NoStamp) => prevReq.at < now

\* The robots gate of process_url is asked about the input url and nothing
\* else: a target is permitted when the gate allowed the line and the target
\* is that url.
Permitted(target) ==
    gate.allowed /\ target[1] = get_root_url(url) /\ target[2] = url.path

\* C25: every request process_url sends to the crawled site goes to a url
\* the robots gate has permitted while processing the same line: the page
\* GET and the HEAD probe (both to the input url), the GET of each linked
\* stylesheet and the GET of each probed image.
C25_RequestsPermitted ==
    LET base == get_root_url(url)
    IN  /\ (reqs.page > 0 \/ reqs.head > 0) => gate.allowed
        /\ reqs.probe > 0 =>
              \A k \in Probed(soup.imgs, base) : Permitted(urljoin(base, soup.imgs[k].src))
        /\ reqs.css > 0 =>
              \A k \in Linked(soup.links) : Permitted(urljoin(base, soup.links[k].href))

\* C30: the rows are as many as the captures that succeeded in this run, and
\* every row belongs to a url whose capture succeeded in this run and has
\* its palette from the image that capture wrote.
C30_RowIffCaptured ==
    visual.pc \in {"capture", "done"} =>
        /\ Len(visual.results) = Cardinality(visual.captured)
        /\ \A j \in 1..Len(visual.results) :
              \E k \in visual.captured :
                  /\ visual.urls[k] = visual.results[j].url
                  /\ \A e \in SeqRange(visual.results[j].palette) : e.color[1][2] = k

\* C27: the sampling run never waits for ever, samples at most MAX_ATTEMPTS
\* pages with at most three GETs each (three when no page is obtained),
\* sends at most MAX_SITENAME_CHECKS queries to the API, and checks no
\* further site once every year has reached its target.
C27_BoundedRun ==
    /\ sample.pc # "hung"
    /\ sample.attempts <= MAX_ATTEMPTS
    /\ sample.api_calls <= MAX_SITENAME_CHECKS
    /\ sample.gets <= 3
    /\ sample.note = "no_page" => sample.gets = 3
    /\ (sample.pc = "sites" /\ AllCollected(sample.counts)) => sample.sitenames = <<>>

\* C28: every name is sent to the API once, no site is asked for under two
\* names, and no two collected rows carry the same sitename.
C28_NoSiteTwice ==
    /\ sample.api_calls = Cardinality(sample.seen_sitenames)
    /\ \A s, t \in sample.seen_sitenames : SiteOf(s) = SiteOf(t) => s = t
    /\ \A y \in DOMAIN sample.collected :
          \A j, k \in 1..Len(sample.collected[y]) :
              j < k => sample.collected[y][j].sitename # sample.collected[y][k].sitename

\* How many times a row stands in a list
Times(q, r) == Cardinality({k \in 1..Len(q) : q[k] = r})

\* C29: when the run has ended, every collected row stands in the file as
\* many times as it was collected, and the file holds nothing else.
C29_RowsWrittenOnce ==
    sample.pc = "done" /\ sample.note # "aborted" =>
        /\ \A r \in Collected :
              Times(sample.file, r)
                  = Times(sample.collected[2020] \o sample.collected[2021] \o sample.collected[2022], r)
        /\ SeqRange(sample.file) \subseteq Collected

====
